---- MODULE Spec2Model ----
(***************************************************************************)
(* Model of gocosmos' document statements (stmt_document.go): the Exec of  *)
(* StmtInsert, StmtDelete and StmtUpdate, StmtSelect.Query with its        *)
(* ResultSelect cursor, and the placeholder rewriting of StmtSelect.parse. *)
(*                                                                         *)
(* Every value is a pair <<tag, n>>; every error is a record               *)
(* [kind, code, resource]; a string is a sequence of one-character strings.*)
(***************************************************************************)
EXTENDS Integers, Sequences, FiniteSets, TLC

VARIABLES stmt, last, nexec, deleted, rows, origQuery, selectQuery,
          lexemes, valuesStr, parseErr

\* what the value lexer reads and what parse returns
lexVars == <<lexemes, valuesStr, parseErr>>

vars == <<stmt, last, nexec, deleted, rows, origQuery, selectQuery, lexemes, valuesStr, parseErr>>

(* ------------------------------ bounds -------------------------------- *)

\* longest argument list handed to Exec / Query; placeholder indices go up to it
MaxArgs == 3
\* executions of one prepared DELETE
MaxExec == 2
\* pages with a nonempty continuation token before the page that ends a query
MaxPages == 3
\* documents on one page
MaxDocs == 2
\* longest SELECT body (characters)
MaxLen == 4

(* ------------------------------ values -------------------------------- *)

None == <<"none", 0>>
Absent == <<"absent", 0>>
Lit(n) == <<"lit", n>>
ArgVal(i) == <<"arg", i>>
IdStr == <<"idStr", 0>>

\* the argument list of length n: position i holds a value of its own
ArgList(n) == [i \in 1..n |-> ArgVal(i)]

ArgLists == {ArgList(n) : n \in 0..MaxArgs}

(* ------------------------------ errors -------------------------------- *)

Err(k, c, r) == [kind |-> k, code |-> c, resource |-> r]
Nil == Err("nil", 0, "none")
ErrForbidden == Err("ErrForbidden", 0, "none")
ErrNotFound == Err("ErrNotFound", 0, "none")
ErrConflict == Err("ErrConflict", 0, "none")
\* fmt.Errorf("invalid value index %d", ph.index)
IndexErr(i) == Err("invalid value index", i, "none")
\* fmt.Errorf("there is placeholder number %d", i+1)
BindErr(i) == Err("there is placeholder number", i, "none")
\* the transport's own errors: an API error of a status, or a failed call
ApiErr(c, r) == Err("api", c, r)
CallErr == Err("call", 0, "none")

\* what parse returns: errors.New(msg + "cannot parse query, invalid token at: ..."),
\* with msg one of "", "(nul) ", "(bool) ", "(unquote) ", "(unmarshal) ", "(field) "
ParseError(msg) == Err("cannot parse query", 0, msg)
\* fmt.Errorf("invalid id literate: ...") / "invalid id placeholder literate: ..."
IdError(msg) == Err(msg, 0, "none")
\* parse has not been called
NotParsed == Err("not parsed", 0, "none")
\* parse ended in a run-time panic
Panicked == Err("panic", 0, "none")

\* strings.Index(err.Error(), "ResourceType: Document") >= 0
IsDocumentNotFound(err) == err.resource = "Document"

(* ---------------------------- documents ------------------------------- *)

DocFields == {"a", "b", "_etag"}
NoDoc == [f \in DocFields |-> Absent]

\* the documents GetDocument may return
Docs ==
  {[f \in DocFields |-> CASE f = "a" -> <<"doc", 1>>
                          [] f = "b" -> b
                          [] OTHER -> <<"etag", e>>] :
     b \in {Absent, <<"doc", 2>>}, e \in 1..2}

\* DocInfo.Etag
Etag(doc) == doc["_etag"]

\* DocInfo.RemoveSystemAttrs: a copy without the "_" attributes
IsSystemAttr(f) == f \in {"_etag"}
RemoveSystemAttrs(doc) == [f \in DocFields |-> IF IsSystemAttr(f) THEN Absent ELSE doc[f]]

(* ----------------------- transport responses -------------------------- *)

Resp(sc, e, d, ds, tok) ==
  [StatusCode |-> sc, err |-> e, doc |-> d, docs |-> ds, token |-> tok]
NoResp == Resp(0, Nil, NoDoc, <<>>, 0)

\* what the REST client answers when it does not succeed
Failures ==
  { Resp(403, ApiErr(403, "none"), NoDoc, <<>>, 0),
    Resp(404, ApiErr(404, "Document"), NoDoc, <<>>, 0),
    Resp(404, ApiErr(404, "Collection"), NoDoc, <<>>, 0),
    Resp(409, ApiErr(409, "none"), NoDoc, <<>>, 0),
    Resp(412, ApiErr(412, "none"), NoDoc, <<>>, 0),
    Resp(500, ApiErr(500, "none"), NoDoc, <<>>, 0),
    Resp(0, CallErr, NoDoc, <<>>, 0) }

CreateResponses == {Resp(201, Nil, NoDoc, <<>>, 0)} \cup Failures
GetResponses == {Resp(200, Nil, d, <<>>, 0) : d \in Docs} \cup Failures
ReplaceResponses == {Resp(200, Nil, NoDoc, <<>>, 0)} \cup Failures

\* DeleteDocument on the remote collection: 204 for a document that is there,
\* 404 "ResourceType: Document" for one that is gone
DeleteAnswer(key, gone) ==
  IF key \in gone THEN Resp(404, ApiErr(404, "Document"), NoDoc, <<>>, 0)
  ELSE Resp(204, Nil, NoDoc, <<>>, 0)
DeleteFaults == Failures \ {Resp(404, ApiErr(404, "Document"), NoDoc, <<>>, 0)}

\* one call of the REST client, with its answer
Call(op, id, pk, etag, data, params, tok, resp) ==
  [op |-> op, id |-> id, pk |-> pk, etag |-> etag, data |-> data, params |-> params,
   token |-> tok, resp |-> resp]

(* --------------------------- statements ------------------------------- *)

\* a parsed value: a literal, or placeholder{index}
Literal(v) == [isPh |-> FALSE, index |-> 0, val |-> v]
Placeholder(i) == [isPh |-> TRUE, index |-> i, val |-> None]

\* values a parsed VALUES / SET list holds: strconv.Atoi of \d+ is never negative
ValueTokens == {Literal(Lit(1))} \cup {Placeholder(i) : i \in 0..MaxArgs}

RECURSIVE CountPh(_)
CountPh(values) ==
  IF values = <<>> THEN 0
  ELSE (IF Head(values).isPh THEN 1 ELSE 0) + CountPh(Tail(values))

\* the placeholders map of a statement that has none (only StmtSelect has one)
NoPlaceholders == [v \in {} |-> <<>>]

Statement(k, fs, vs, idPh, idx, n, phs) ==
  [kind |-> k, fields |-> fs, values |-> vs, idIsPh |-> idPh, idIndex |-> idx,
   numInput |-> n, placeholders |-> phs]

InsertFieldLists == {<<"a">>, <<"a", "b">>, <<"a", "a">>}
UpdateFieldLists == {<<"a">>, <<"a", "b">>, <<"a", "a">>, <<"b", "_etag">>}

ValueLists(fs) == [1..Len(fs) -> ValueTokens]

\* StmtInsert after parse and validate: numInput is 1 plus one per placeholder
InsertStmts ==
  UNION {{Statement("insert", fs, vs, FALSE, 0, 1 + CountPh(vs), NoPlaceholders) :
            vs \in ValueLists(fs)} : fs \in InsertFieldLists}

\* StmtDelete after parse and validate: a literal id, or a placeholder of index >= 1
DeleteStmts ==
  {Statement("delete", <<>>, <<>>, FALSE, 0, 1, NoPlaceholders)}
  \cup {Statement("delete", <<>>, <<>>, TRUE, i, 2, NoPlaceholders) : i \in 1..MaxArgs}

\* StmtUpdate after parse and validate: _parseId, then one value per SET field
UpdateStmts ==
  UNION {{Statement("update", fs, vs, FALSE, 0, 1 + CountPh(vs), NoPlaceholders) :
            vs \in ValueLists(fs)} : fs \in UpdateFieldLists}
  \cup UNION {{Statement("update", fs, vs, TRUE, i, 2 + CountPh(vs), NoPlaceholders) :
                 vs \in ValueLists(fs), i \in 1..MaxArgs} : fs \in UpdateFieldLists}

\* strconv.Itoa of a single decimal digit
Digit(n) ==
  CASE n = 0 -> "0" [] n = 1 -> "1" [] n = 2 -> "2" [] n = 3 -> "3" [] n = 4 -> "4"
    [] n = 5 -> "5" [] n = 6 -> "6" [] n = 7 -> "7" [] n = 8 -> "8" [] OTHER -> "9"

\* the decimal digits of n >= 0
RECURSIVE Itoa(_)
Itoa(n) == IF n < 10 THEN <<Digit(n)>> ELSE Itoa(n \div 10) \o <<Digit(n % 10)>>

\* key := "@_" + match[1], for a placeholder written as the decimal digits of v
ParamName(v) == <<"@", "_">> \o Itoa(v)

\* StmtSelect after parse: placeholders maps each index found to its named
\* parameter, and there is one required input per placeholder occurrence (here
\* each index occurs once)
SelectStmts ==
  {Statement("select", <<>>, <<>>, FALSE, 0, Cardinality(phs), [v \in phs |-> ParamName(v)]) :
     phs \in SUBSET (1..MaxArgs)}

(* --------------------------- what Exec returns ------------------------ *)

\* (result, err) of an Exec or Query, or the panic that ended it, with the calls
\* it made of the REST client
Outcome(k, a, p, hasRes, succ, sc, e, cs) ==
  [kind |-> k, args |-> a, panicked |-> p, hasResult |-> hasRes, Successful |-> succ,
   StatusCode |-> sc, err |-> e, calls |-> cs]
NoOutcome == Outcome("none", <<>>, FALSE, FALSE, FALSE, 0, Nil, <<>>)
\* index out of range on args[...]
Panic(k, a, cs) == Outcome(k, a, TRUE, FALSE, FALSE, 0, Nil, cs)
\* return nil, err
Failed(k, a, e, cs) == Outcome(k, a, FALSE, FALSE, FALSE, 0, e, cs)

\* mutant: the bound checked against the last argument instead of the one before
InvalidIndexOffByOne(i, a) == i <= 0 \/ i > Len(a)

\* ph.index <= 0 || ph.index >= len(args)
InvalidIndex(i, a) == i <= 0 \/ i >= Len(a)

\* the loop over the fields: each field is set to its literal or to
\* args[ph.index-1]; the first invalid placeholder index ends it
RECURSIVE SetFields(_, _, _, _, _)
SetFields(data, fs, vs, a, i) ==
  IF i > Len(fs) THEN [ok |-> TRUE, index |-> 0, data |-> data]
  ELSE IF vs[i].isPh
       THEN IF InvalidIndex(vs[i].index, a)
            THEN [ok |-> FALSE, index |-> vs[i].index, data |-> data]
            ELSE SetFields([data EXCEPT ![fs[i]] = a[vs[i].index]], fs, vs, a, i + 1)
       ELSE SetFields([data EXCEPT ![fs[i]] = vs[i].val], fs, vs, a, i + 1)

\* mutant: 409 is left as the transport reported it
MapStatusKeeps409(sc, e) ==
  CASE sc = 403 -> ErrForbidden
    [] sc = 404 -> ErrNotFound
    [] OTHER -> e

\* the status switch of StmtInsert.Exec and StmtSelect.Query
MapStatus(sc, e) ==
  CASE sc = 403 -> ErrForbidden
    [] sc = 404 -> ErrNotFound
    [] sc = 409 -> ErrConflict
    [] OTHER -> e

\* the partition key StmtInsert.Exec and StmtDelete.Exec send: args[s.numInput-1]
PartitionKeyByNumInput(s, a) == a[s.numInput]

\* StmtInsert.Exec
InsertResult(s, a, resp) ==
  IF s.numInput > Len(a) THEN Panic("insert", a, <<>>)
  ELSE LET set == SetFields(NoDoc, s.fields, s.values, a, 1)
       IN  IF ~set.ok THEN Failed("insert", a, IndexErr(set.index), <<>>)
           ELSE Outcome("insert", a, FALSE, TRUE, resp.err = Nil, 0,
                        MapStatus(resp.StatusCode, resp.err),
                        <<Call("CreateDocument", None, PartitionKeyByNumInput(s, a),
                               None, set.data, <<>>, 0, resp)>>)

\* mutant: every 404 surfaces as ErrNotFound
DeleteStatusEvery404(sc, e) ==
  CASE sc = 403 -> ErrForbidden
    [] sc = 404 -> ErrNotFound
    [] OTHER -> e

\* the status switch of StmtDelete.Exec
DeleteStatus(sc, e) ==
  CASE sc = 403 -> ErrForbidden
    [] sc = 404 -> (IF IsDocumentNotFound(e) THEN Nil ELSE ErrNotFound)
    [] OTHER -> e

\* the id StmtDelete.Exec and StmtUpdate.Exec resolve once the index is valid
DocId(s, a) == IF s.idIsPh THEN a[s.idIndex] ELSE IdStr

\* StmtDelete.Exec; fault is what the REST client answers when it fails, NoResp
\* when it answers for the collection
DeleteResult(s, a, fault, gone) ==
  IF s.idIsPh /\ InvalidIndex(s.idIndex, a) THEN Failed("delete", a, IndexErr(s.idIndex), <<>>)
  ELSE IF s.numInput > Len(a) THEN Panic("delete", a, <<>>)
  ELSE LET id == DocId(s, a)
           pk == PartitionKeyByNumInput(s, a)
           resp == IF fault = NoResp THEN DeleteAnswer(<<id, pk>>, gone) ELSE fault
       IN  Outcome("delete", a, FALSE, TRUE, resp.err = Nil, resp.StatusCode,
                   DeleteStatus(resp.StatusCode, resp.err),
                   <<Call("DeleteDocument", id, pk, None, NoDoc, <<>>, 0, resp)>>)

\* mutant: 412 is not swallowed
ReplaceStatusKeeps412(sc, e) ==
  CASE sc = 403 -> ErrForbidden
    [] sc = 404 -> (IF IsDocumentNotFound(e) THEN Nil ELSE ErrNotFound)
    [] sc = 409 -> ErrConflict
    [] OTHER -> e

\* the status switch after ReplaceDocument
ReplaceStatus(sc, e) ==
  CASE sc = 403 -> ErrForbidden
    [] sc = 404 -> (IF IsDocumentNotFound(e) THEN Nil ELSE ErrNotFound)
    [] sc = 409 -> ErrConflict
    [] sc = 412 -> Nil
    [] OTHER -> e

\* mutant: a 404 for the document is an error like any other 404
FetchFailedEvery404(a, get, cs) ==
  IF get.StatusCode = 404 THEN Failed("update", a, ErrNotFound, cs)
  ELSE Failed("update", a, get.err, cs)

\* the fetch phase once GetDocument failed
FetchFailed(a, get, cs) ==
  IF get.StatusCode = 404
  THEN IF IsDocumentNotFound(get.err)
       THEN Outcome("update", a, FALSE, TRUE, FALSE, 0, Nil, cs)
       ELSE Failed("update", a, ErrNotFound, cs)
  ELSE Failed("update", a, get.err, cs)

\* the partition key StmtUpdate.Exec sends: args[len(args)-1]
PartitionKeyLast(a) == a[Len(a)]

\* mutant: the fetched document is sent back with its system attributes
ReplacePhaseKeepsSystemAttrs(s, a, get, rep, cs) ==
  LET etag == Etag(get.doc)
      set == SetFields(get.doc, s.fields, s.values, a, 1)
  IN  IF ~set.ok THEN Failed("update", a, IndexErr(set.index), cs)
      ELSE Outcome("update", a, FALSE, TRUE, rep.err = Nil, 0,
                   ReplaceStatus(rep.StatusCode, rep.err),
                   Append(cs, Call("ReplaceDocument", None, PartitionKeyLast(a), etag,
                                   set.data, <<>>, 0, rep)))

\* the replace phase: the fetched document without system attributes, the SET
\* fields over it, ReplaceDocument with the etag of the fetch
ReplacePhase(s, a, get, rep, cs) ==
  LET etag == Etag(get.doc)
      set == SetFields(RemoveSystemAttrs(get.doc), s.fields, s.values, a, 1)
  IN  IF ~set.ok THEN Failed("update", a, IndexErr(set.index), cs)
      ELSE Outcome("update", a, FALSE, TRUE, rep.err = Nil, 0,
                   ReplaceStatus(rep.StatusCode, rep.err),
                   Append(cs, Call("ReplaceDocument", None, PartitionKeyLast(a), etag,
                                   set.data, <<>>, 0, rep)))

\* StmtUpdate.Exec
UpdateResult(s, a, get, rep) ==
  IF s.idIsPh /\ InvalidIndex(s.idIndex, a) THEN Failed("update", a, IndexErr(s.idIndex), <<>>)
  ELSE IF Len(a) = 0 THEN Panic("update", a, <<>>)
  ELSE LET cs == <<Call("GetDocument", DocId(s, a), PartitionKeyLast(a), None, NoDoc, <<>>, 0, get)>>
       IN  IF get.err # Nil THEN FetchFailed(a, get, cs)
           ELSE ReplacePhase(s, a, get, rep, cs)

\* RowsAffected of the result an Exec returned: ResultInsert and ResultUpdate go
\* by Successful, ResultDelete by Successful and a status below 400
RowsAffected(r) ==
  IF r.kind = "delete" THEN (IF r.Successful /\ r.StatusCode < 400 THEN 1 ELSE 0)
  ELSE (IF r.Successful THEN 1 ELSE 0)

(* ------------------------------ SELECT -------------------------------- *)

\* the documents of page p
PageDocs(p, n) == [j \in 1..n |-> <<p, j>>]

\* RespQueryDocs.Count of a page: the number of documents on it
Count(resp) == Len(resp.docs)

\* what QueryDocuments answers, call after call: k pages with a continuation
\* token, then a page without one or a failure
Script(k, ns, fin) ==
  [p \in 1..(k + 1) |->
     IF p <= k THEN Resp(200, Nil, NoDoc, PageDocs(p, ns[p]), p)
     ELSE IF fin = NoResp THEN Resp(200, Nil, NoDoc, PageDocs(p, ns[p]), 0)
     ELSE fin]

\* the first argument position without a placeholder of that index, 0 if none
FirstUnbound(s, a) ==
  IF \E i \in 1..Len(a) : i \notin DOMAIN s.placeholders
  THEN CHOOSE i \in 1..Len(a) :
         /\ i \notin DOMAIN s.placeholders
         /\ \A j \in 1..(i - 1) : j \in DOMAIN s.placeholders
  ELSE 0

\* params: {"name": s.placeholders[i+1], "value": arg} for each argument in turn
Params(s, a) == [i \in 1..Len(a) |-> [name |-> s.placeholders[i], value |-> a[i]]]

\* mutant: the continuation token is not carried into the next call
RECURSIVE QueryLoopDropsToken(_, _, _, _, _, _)
QueryLoopDropsToken(script, params, i, tok, documents, cs) ==
  LET resp == script[i]
      called == Append(cs, Call("QueryDocuments", None, None, None, NoDoc, params, tok, resp))
  IN  IF resp.err # Nil THEN [documents |-> documents, calls |-> called, restResult |-> resp]
      ELSE IF resp.token = 0
           THEN [documents |-> documents \o resp.docs, calls |-> called, restResult |-> resp]
           ELSE QueryLoopDropsToken(script, params, i + 1, tok, documents \o resp.docs, called)

\* the page loop of StmtSelect.Query from its i-th call on: the documents of an
\* error-free page are appended, an empty continuation token or an error ends it
RECURSIVE QueryLoop(_, _, _, _, _, _)
QueryLoop(script, params, i, tok, documents, cs) ==
  LET resp == script[i]
      called == Append(cs, Call("QueryDocuments", None, None, None, NoDoc, params, tok, resp))
  IN  IF resp.err # Nil THEN [documents |-> documents, calls |-> called, restResult |-> resp]
      ELSE IF resp.token = 0
           THEN [documents |-> documents \o resp.docs, calls |-> called, restResult |-> resp]
           ELSE QueryLoop(script, params, i + 1, resp.token, documents \o resp.docs, called)

\* the count of the ResultSelect that Query builds
ResultCount(restResult, documents) == Count(restResult)

Rows(open, n, documents) ==
  [open |-> open, count |-> n, documents |-> documents, cursorCount |-> 0,
   emitted |-> <<>>, lastNext |-> "none"]
NoRows == Rows(FALSE, 0, <<>>)

\* StmtSelect.Query: (rows, err) and the calls made
QueryResult(s, a, script) ==
  IF FirstUnbound(s, a) # 0
  THEN [out |-> Failed("select", a, BindErr(FirstUnbound(s, a)), <<>>), rows |-> NoRows]
  ELSE LET run == QueryLoop(script, Params(s, a), 1, 0, <<>>, <<>>)
           err == run.restResult.err
       IN  [out |-> Outcome("select", a, FALSE, err = Nil, err = Nil, 0,
                            MapStatus(run.restResult.StatusCode, err), run.calls),
            rows |-> IF err = Nil
                     THEN Rows(TRUE, ResultCount(run.restResult, run.documents), run.documents)
                     ELSE NoRows]

\* ResultSelect.Next: the read position and what it returns (a document stands
\* for its row: the copy of its values into dest by column is left out)
NextResult(r) ==
  IF r.cursorCount >= r.count THEN [r EXCEPT !.lastNext = "EOF"]
  ELSE IF r.cursorCount >= Len(r.documents) THEN [r EXCEPT !.lastNext = "panic"]
  ELSE [r EXCEPT !.cursorCount = @ + 1,
                 !.emitted = Append(@, r.documents[r.cursorCount + 1]),
                 !.lastNext = "row"]

(* ------------------------- the state machine -------------------------- *)

Statements == InsertStmts \cup DeleteStmts \cup UpdateStmts \cup SelectStmts

Init ==
  /\ stmt \in Statements
  /\ last = NoOutcome
  /\ nexec = 0
  /\ deleted = {}
  /\ rows = NoRows
  /\ origQuery = <<>>
  /\ selectQuery = <<>>
  /\ lexemes = <<>>
  /\ valuesStr = <<>>
  /\ parseErr = NotParsed

\* Only the remote collection outlives an execution, and only DELETE reads it:
\* a DELETE is executed up to MaxExec times, the other statements once
Executions(k) == IF k = "delete" THEN MaxExec ELSE 1

CanExec(k) == stmt.kind = k /\ nexec < Executions(k) /\ ~last.panicked

InsertExec ==
  /\ CanExec("insert")
  /\ \E a \in ArgLists, resp \in CreateResponses :
       last' = InsertResult(stmt, a, resp)
  /\ nexec' = nexec + 1
  /\ UNCHANGED <<stmt, deleted, rows, origQuery, selectQuery>>
  /\ UNCHANGED lexVars

\* the collection after a DeleteDocument that was answered 204
Gone(out, gone) ==
  IF Len(out.calls) = 1 /\ out.calls[1].resp.StatusCode = 204
  THEN gone \cup {<<out.calls[1].id, out.calls[1].pk>>}
  ELSE gone

DeleteExec ==
  /\ CanExec("delete")
  /\ \E a \in ArgLists, fault \in DeleteFaults \cup {NoResp} :
       /\ last' = DeleteResult(stmt, a, fault, deleted)
       /\ deleted' = Gone(last', deleted)
  /\ nexec' = nexec + 1
  /\ UNCHANGED <<stmt, rows, origQuery, selectQuery>>
  /\ UNCHANGED lexVars

UpdateExec ==
  /\ CanExec("update")
  /\ \E a \in ArgLists, get \in GetResponses, rep \in ReplaceResponses :
       last' = UpdateResult(stmt, a, get, rep)
  /\ nexec' = nexec + 1
  /\ UNCHANGED <<stmt, deleted, rows, origQuery, selectQuery>>
  /\ UNCHANGED lexVars

SelectQuery ==
  /\ CanExec("select")
  /\ \E a \in ArgLists, k \in 0..MaxPages, fin \in Failures \cup {NoResp} :
       \E ns \in [1..(k + 1) -> 0..MaxDocs] :
         LET q == QueryResult(stmt, a, Script(k, ns, fin))
         IN  /\ last' = q.out
             /\ rows' = q.rows
  /\ nexec' = nexec + 1
  /\ UNCHANGED <<stmt, deleted, origQuery, selectQuery>>
  /\ UNCHANGED lexVars

RowsNext ==
  /\ rows.open
  /\ rows.lastNext # "panic"
  /\ rows' = NextResult(rows)
  /\ UNCHANGED <<stmt, last, nexec, deleted, origQuery, selectQuery>>
  /\ UNCHANGED lexVars

Next == InsertExec \/ DeleteExec \/ UpdateExec \/ SelectQuery \/ RowsNext

Spec == Init /\ [][Next]_vars

(* ------------------------- StmtSelect.parse --------------------------- *)

\* the characters a SELECT body is written in
Alphabet == {":", "@", "0", "1", "2", ",", " ", "x"}

Strings == UNION {[1..n -> Alphabet] : n \in 0..MaxLen}

\* [$@:], \d and \s of the regexp
PrefixChars == {"$", "@", ":"}
Digits == {"0", "1", "2", "3", "4", "5", "6", "7", "8", "9"}
SpaceChars == {" ", "\t", "\n", "\f", "\r"}

DigitValue(c) ==
  CASE c = "0" -> 0 [] c = "1" -> 1 [] c = "2" -> 2 [] c = "3" -> 3 [] c = "4" -> 4
    [] c = "5" -> 5 [] c = "6" -> 6 [] c = "7" -> 7 [] c = "8" -> 8 [] OTHER -> 9

\* strconv.Atoi of a run of digits
RECURSIVE Atoi(_)
Atoi(ds) ==
  IF ds = <<>> THEN 0
  ELSE 10 * Atoi(SubSeq(ds, 1, Len(ds) - 1)) + DigitValue(ds[Len(ds)])

\* the last position of the run of characters of the set chars that starts at p
\* (p - 1 when the run is empty)
RECURSIVE RunEnd(_, _, _)
RunEnd(s, p, chars) ==
  IF p <= Len(s) /\ s[p] \in chars THEN RunEnd(s, p + 1, chars) ELSE p - 1

\* reValPlaceholder, [$@:](\d+)\s*,? : whether it matches at p, and where the
\* digits and the match end
MatchesAt(s, p) == p + 1 <= Len(s) /\ s[p] \in PrefixChars /\ s[p + 1] \in Digits
MatchAt(s, p) ==
  LET d == RunEnd(s, p + 1, Digits)
      w == RunEnd(s, d + 1, SpaceChars)
      e == IF w + 1 <= Len(s) /\ s[w + 1] = "," THEN w + 1 ELSE w
  IN  [text |-> SubSeq(s, p, e), digits |-> SubSeq(s, p + 1, d), end |-> e]

\* reValPlaceholder.FindAllStringSubmatch(s, -1) from position p on: the
\* leftmost matches, none overlapping another
RECURSIVE FindAll(_, _)
FindAll(s, p) ==
  IF p > Len(s) THEN <<>>
  ELSE IF MatchesAt(s, p) THEN <<MatchAt(s, p)>> \o FindAll(s, MatchAt(s, p).end + 1)
  ELSE FindAll(s, p + 1)

HasPrefixAt(s, p, old) == p + Len(old) - 1 <= Len(s) /\ SubSeq(s, p, p + Len(old) - 1) = old

\* strings.ReplaceAll(s, old, new) from position p on, old not empty
RECURSIVE ReplaceAll(_, _, _, _)
ReplaceAll(s, p, old, new) ==
  IF p > Len(s) THEN <<>>
  ELSE IF HasPrefixAt(s, p, old) THEN new \o ReplaceAll(s, p + Len(old), old, new)
  ELSE <<s[p]>> \o ReplaceAll(s, p + 1, old, new)

\* "@_" + match[1]
ParamKey(m) == <<"@", "_">> \o m.digits

\* the key, and a space after it if match[0] ends with one
Key(m) ==
  ParamKey(m) \o (IF m.text[Len(m.text)] = " " THEN <<" ">> ELSE <<>>)

\* s.placeholders[v] = key
Put(phs, v, key) == [u \in DOMAIN phs \cup {v} |-> IF u = v THEN key ELSE phs[u]]

\* the loop over the matches: each maps its index to its key in placeholders and
\* has its text replaced, everywhere in the query, by its key
RECURSIVE Rewrite(_, _, _, _)
Rewrite(matches, i, query, phs) ==
  IF i > Len(matches) THEN [query |-> query, placeholders |-> phs]
  ELSE Rewrite(matches, i + 1, ReplaceAll(query, 1, matches[i].text, Key(matches[i])),
               Put(phs, Atoi(matches[i].digits), ParamKey(matches[i])))

\* mutant: one required input per distinct index
ParseSelectDistinct(query) ==
  LET matches == FindAll(query, 1)
      done == Rewrite(matches, 1, query, NoPlaceholders)
  IN  [numInput |-> Cardinality(DOMAIN done.placeholders),
       placeholders |-> done.placeholders, query |-> done.query]

\* StmtSelect.parse on the query body: numInput, placeholders, the rewritten query
ParseSelect(query) ==
  LET matches == FindAll(query, 1)
      done == Rewrite(matches, 1, query, NoPlaceholders)
  IN  [numInput |-> Len(matches), placeholders |-> done.placeholders, query |-> done.query]

Unparsed == Statement("unparsed", <<>>, <<>>, FALSE, 0, 0, NoPlaceholders)

InitParse ==
  /\ origQuery \in Strings
  /\ selectQuery = origQuery
  /\ stmt = Unparsed
  /\ last = NoOutcome
  /\ nexec = 0
  /\ deleted = {}
  /\ rows = NoRows
  /\ lexemes = <<>>
  /\ valuesStr = <<>>
  /\ parseErr = NotParsed

SelectParse ==
  /\ stmt = Unparsed
  /\ LET p == ParseSelect(selectQuery)
     IN  /\ selectQuery' = p.query
         /\ stmt' = Statement("select", <<>>, <<>>, FALSE, 0, p.numInput, p.placeholders)
  /\ UNCHANGED <<last, nexec, deleted, rows, origQuery>>
  /\ UNCHANGED lexVars

\* StmtSelect.Query on the statement that parse left, answered with one page
\* without documents or continuation token
ParsedQuery ==
  /\ CanExec("select")
  /\ \E a \in ArgLists :
       LET q == QueryResult(stmt, a, Script(0, <<0>>, NoResp))
       IN  /\ last' = q.out
           /\ rows' = q.rows
  /\ nexec' = nexec + 1
  /\ UNCHANGED <<stmt, deleted, origQuery, selectQuery>>
  /\ UNCHANGED lexVars

NextParse == SelectParse \/ ParsedQuery

SpecParse == InitParse /\ [][NextParse]_vars

(* --------------------------- the value lexer -------------------------- *)

\* at most this many values in a value list
MaxValues == 2

Quote == "\""
Backslash == "\\"

\* temp[n:]
Drop(s, n) == SubSeq(s, n + 1, Len(s))

\* strings.TrimFunc(s, f), f the membership in chars
RECURSIVE TrimRight(_, _)
TrimRight(s, chars) ==
  IF s # <<>> /\ s[Len(s)] \in chars THEN TrimRight(SubSeq(s, 1, Len(s) - 1), chars) ELSE s
TrimFunc(s, chars) == TrimRight(Drop(s, RunEnd(s, 1, chars)), chars)

\* strings.TrimSpace (of unicode.IsSpace, the characters a text here can hold)
TrimSpace(s) == TrimFunc(s, SpaceChars)

\* _isSpace(r) || r == ','  (and || r == '=': _isSpace holds for '=' already)
IsSpaceOrComma == SpaceChars \cup {"=", ","}

\* \s*,? from position p on: the position it ends at (p - 1 if on nothing)
SeparatorEnd(s, p) ==
  LET w == RunEnd(s, p, SpaceChars)
  IN  IF w + 1 <= Len(s) /\ s[w + 1] = "," THEN w + 1 ELSE w

\* (?i): the letters of null, true and false in lower case
Lower(c) ==
  CASE c = "N" -> "n" [] c = "U" -> "u" [] c = "L" -> "l" [] c = "T" -> "t"
    [] c = "R" -> "r" [] c = "E" -> "e" [] c = "F" -> "f" [] c = "A" -> "a"
    [] c = "S" -> "s" [] OTHER -> c

WordNull == <<"n", "u", "l", "l">>
WordTrue == <<"t", "r", "u", "e">>
WordFalse == <<"f", "a", "l", "s", "e">>

\* s starts with the word, in whatever case
HasWord(s, word) == Len(s) >= Len(word) /\ \A i \in DOMAIN word : Lower(s[i]) = word[i]

\* [\d\.xe+-]
NumberChars == Digits \cup {".", "x", "e", "+", "-"}

\* loc[1] of re.FindStringIndex(temp) when loc != nil && loc[0] == 0, else 0: the
\* leftmost match starts at 0 exactly when the expression matches there
PlaceholderLoc(temp) == IF MatchesAt(temp, 1) THEN MatchAt(temp, 1).end ELSE 0

NullLoc(temp) == IF HasWord(temp, WordNull) THEN SeparatorEnd(temp, Len(WordNull) + 1) ELSE 0

NumberLoc(temp) ==
  LET d == RunEnd(temp, 1, NumberChars)
  IN  IF d >= 1 THEN SeparatorEnd(temp, d + 1) ELSE 0

BooleanLoc(temp) ==
  IF HasWord(temp, WordTrue) THEN SeparatorEnd(temp, Len(WordTrue) + 1)
  ELSE IF HasWord(temp, WordFalse) THEN SeparatorEnd(temp, Len(WordFalse) + 1)
  ELSE 0

\* (\\"|[^"])*?" from position p on: the position of the closing quote, 0 if
\* there is none. At each character the expression prefers to close, then to
\* take \" as one unit, then to take one character that is no quote.
RECURSIVE StringClose(_, _)
StringClose(s, p) ==
  IF p > Len(s) THEN 0
  ELSE IF s[p] = Quote THEN p
  ELSE IF s[p] = Backslash /\ p + 1 <= Len(s) /\ s[p + 1] = Quote /\ StringClose(s, p + 2) # 0
       THEN StringClose(s, p + 2)
  ELSE StringClose(s, p + 1)

StringLoc(temp) ==
  IF temp # <<>> /\ temp[1] = Quote /\ StringClose(temp, 2) # 0
  THEN SeparatorEnd(temp, StringClose(temp, 2) + 1)
  ELSE 0

(* ----------------- strconv.Unquote and json.Unmarshal ------------------ *)

Decoded(text) == [ok |-> TRUE, text |-> text]
NotDecoded == [ok |-> FALSE, text |-> <<>>]

\* the character an escape letter stands for
EscapeChar(c) ==
  CASE c = "n" -> "\n" [] c = "t" -> "\t" [] c = "r" -> "\r" [] c = "f" -> "\f"
    [] OTHER -> c

\* the inside of a quoted literal from position p on, text being what is decoded
\* so far: a character of raw may not stand unescaped, a backslash is followed
\* by one of escapes (the numeric escapes and \a \b \v, which no text here
\* holds, are left out)
RECURSIVE Unescape(_, _, _, _, _)
Unescape(body, p, text, raw, escapes) ==
  IF p > Len(body) THEN Decoded(text)
  ELSE IF body[p] \in raw THEN NotDecoded
  ELSE IF body[p] = Backslash
       THEN IF p + 1 <= Len(body) /\ body[p + 1] \in escapes
            THEN Unescape(body, p + 2, Append(text, EscapeChar(body[p + 1])), raw, escapes)
            ELSE NotDecoded
  ELSE Unescape(body, p + 1, Append(text, body[p]), raw, escapes)

IsQuoted(s) == Len(s) >= 2 /\ s[1] = Quote /\ s[Len(s)] = Quote

\* strconv.Unquote of a double-quoted Go literal
Unquote(s) ==
  IF IsQuoted(s)
  THEN Unescape(SubSeq(s, 2, Len(s) - 1), 1, <<>>, {Quote, "\n"},
                {Quote, Backslash, "n", "t", "r", "f"})
  ELSE NotDecoded

JsonNull == <<"null", 0>>
JsonBool(b) == <<"bool", b>>
JsonString(text) == <<"string", text>>

\* a JSON number is m * 10^e, m without trailing zeros
RECURSIVE JsonNumber(_, _)
JsonNumber(m, e) ==
  IF m = 0 THEN <<"number", <<0, 0>>>>
  ELSE IF m % 10 = 0 THEN JsonNumber(m \div 10, e + 1)
  ELSE <<"number", <<m, e>>>>

\* the parts of a text read as -?int(.frac)?([eE][+-]?exp)?
NumberParts(t) ==
  LET s0 == IF t # <<>> /\ t[1] = "-" THEN 2 ELSE 1
      i == RunEnd(t, s0, Digits)
      hasFrac == i + 1 <= Len(t) /\ t[i + 1] = "."
      f == IF hasFrac THEN RunEnd(t, i + 2, Digits) ELSE i
      hasExp == f + 1 <= Len(t) /\ t[f + 1] \in {"e", "E"}
      x0 == IF hasExp /\ f + 2 <= Len(t) /\ t[f + 2] \in {"+", "-"} THEN f + 3 ELSE f + 2
      x == IF hasExp THEN RunEnd(t, x0, Digits) ELSE f
  IN  [ok |-> /\ i >= s0
              /\ (t[s0] = "0" => i = s0)
              /\ (hasFrac => f >= i + 2)
              /\ (hasExp => x >= x0)
              /\ x = Len(t),
       negative |-> s0 = 2,
       int |-> SubSeq(t, s0, i),
       frac |-> IF hasFrac THEN SubSeq(t, i + 2, f) ELSE <<>>,
       expNegative |-> hasExp /\ x0 = f + 3 /\ t[f + 2] = "-",
       exp |-> IF hasExp THEN SubSeq(t, x0, x) ELSE <<>>]

NumberValue(n) ==
  JsonNumber((IF n.negative THEN -1 ELSE 1) * Atoi(n.int \o n.frac),
             (IF n.expNegative THEN -1 ELSE 1) * Atoi(n.exp) - Len(n.frac))

JsonSpace == {" ", "\t", "\n", "\r"}
JsonControl == {"\t", "\n", "\f", "\r"}

Unmarshalled(v) == [ok |-> TRUE, val |-> v]
NotUnmarshalled == [ok |-> FALSE, val |-> None]

\* json.Unmarshal(text, &data), data an interface{}: null, a boolean, a number
\* or a string (arrays and objects, which no text here holds, are left out)
Unmarshal(text) ==
  LET t == TrimFunc(text, JsonSpace)
  IN  IF t = WordNull THEN Unmarshalled(JsonNull)
      ELSE IF t = WordTrue THEN Unmarshalled(JsonBool(TRUE))
      ELSE IF t = WordFalse THEN Unmarshalled(JsonBool(FALSE))
      ELSE IF IsQuoted(t)
           THEN LET body == Unescape(SubSeq(t, 2, Len(t) - 1), 1, <<>>, {Quote} \cup JsonControl,
                                     {Quote, Backslash, "/", "n", "t", "r", "f"})
                IN  IF body.ok THEN Unmarshalled(JsonString(body.text)) ELSE NotUnmarshalled
      ELSE IF t # <<>> /\ NumberParts(t).ok THEN Unmarshalled(NumberValue(NumberParts(t)))
      ELSE NotUnmarshalled

\* json.Unmarshal(token, &data), data a bool, of a token that reads true or
\* false in some case
UnmarshalBool(token) ==
  IF token = WordTrue THEN Unmarshalled(JsonBool(TRUE))
  ELSE IF token = WordFalse THEN Unmarshalled(JsonBool(FALSE))
  ELSE NotUnmarshalled

(* ------------------------- parsing the values -------------------------- *)

\* one step of the lexer: the value appended to s.values and the loc[1] that
\* temp is cut at, or the error parse returns
Lexed(v, loc) == [err |-> Nil, value |-> v, loc |-> loc]
NotLexed(e) == [err |-> e, value |-> Literal(None), loc |-> 0]

\* mutant: the unquoted content is the value, a string
QuotedValueAsString(token, loc) ==
  LET unquoted == Unquote(token)
  IN  IF ~unquoted.ok THEN NotLexed(ParseError("(unquote) "))
      ELSE Lexed(Literal(JsonString(unquoted.text)), loc)

\* the value of a double-quoted token: strconv.Unquote, then json.Unmarshal
QuotedValue(token, loc) ==
  LET unquoted == Unquote(token)
  IN  IF ~unquoted.ok THEN NotLexed(ParseError("(unquote) "))
      ELSE LET data == Unmarshal(unquoted.text)
           IN  IF ~data.ok THEN NotLexed(ParseError("(unmarshal) "))
               ELSE Lexed(Literal(data.val), loc)

\* the value at the head of temp: the forms are tried in turn, placeholder, null,
\* number, boolean, quoted string
LexValue(temp) ==
  IF PlaceholderLoc(temp) # 0
  THEN LET token == TrimFunc(SubSeq(temp, 2, PlaceholderLoc(temp)), IsSpaceOrComma)
       IN  Lexed(Placeholder(Atoi(token)), PlaceholderLoc(temp))
  ELSE IF NullLoc(temp) # 0 THEN Lexed(Literal(JsonNull), NullLoc(temp))
  ELSE IF NumberLoc(temp) # 0
  THEN LET data == Unmarshal(TrimFunc(SubSeq(temp, 1, NumberLoc(temp)), IsSpaceOrComma))
       IN  IF ~data.ok THEN NotLexed(ParseError("(nul) "))
           ELSE Lexed(Literal(data.val), NumberLoc(temp))
  ELSE IF BooleanLoc(temp) # 0
  THEN LET data == UnmarshalBool(TrimFunc(SubSeq(temp, 1, BooleanLoc(temp)), IsSpaceOrComma))
       IN  IF ~data.ok THEN NotLexed(ParseError("(bool) "))
           ELSE Lexed(Literal(data.val), BooleanLoc(temp))
  ELSE IF StringLoc(temp) # 0
  THEN QuotedValue(TrimFunc(SubSeq(temp, 1, StringLoc(temp)), IsSpaceOrComma), StringLoc(temp))
  ELSE NotLexed(ParseError(""))

Parsed(e, fs, vs, n) == [err |-> e, fields |-> fs, values |-> vs, numInput |-> n]

\* [,\s]+ of the field list
FieldSeparators == SpaceChars \cup {","}

\* regexp.Split(s, -1) on runs of field separators, from position p on; cur is
\* the field being read
RECURSIVE Split(_, _, _)
Split(s, p, cur) ==
  IF p > Len(s) THEN <<cur>>
  ELSE IF s[p] \in FieldSeparators
       THEN <<cur>> \o Split(s, RunEnd(s, p, FieldSeparators) + 1, <<>>)
  ELSE Split(s, p + 1, Append(cur, s[p]))

\* the loop of StmtInsert.parse over the value list, from the trimmed temp on
\* (x \in {e} names the value of e, so that it is computed once)
RECURSIVE LexValues(_, _, _, _)
LexValues(temp, fields, values, numInput) ==
  IF temp = <<>> THEN Parsed(Nil, fields, values, numInput)
  ELSE CHOOSE parsed \in
         { IF step.err # Nil THEN Parsed(step.err, fields, values, numInput)
           ELSE CHOOSE rest \in
                  { LexValues(trimmed, fields, vs, n) :
                      trimmed \in {TrimSpace(Drop(temp, step.loc))},
                      vs \in {Append(values, step.value)},
                      n \in {numInput + (IF step.value.isPh THEN 1 ELSE 0)} } : TRUE :
             step \in {LexValue(temp)} } : TRUE

\* StmtInsert.parse
ParseInsert(fieldsStr, values) ==
  CHOOSE parsed \in
    { LexValues(temp, fields, <<>>, 1) :
        temp \in {TrimSpace(values)}, fields \in {Split(fieldsStr, 1, <<>>)} } : TRUE

\* [\w\-]
WordChars ==
  Digits \cup {"_", "-"}
  \cup {"a", "b", "c", "d", "e", "f", "g", "h", "i", "j", "k", "l", "m",
        "n", "o", "p", "q", "r", "s", "t", "u", "v", "w", "x", "y", "z"}
  \cup {"A", "B", "C", "D", "E", "F", "G", "H", "I", "J", "K", "L", "M",
        "N", "O", "P", "Q", "R", "S", "T", "U", "V", "W", "X", "Y", "Z"}

\* reFieldPart, \s*([\w\-]+)\s*= : where a match that starts at p ends, 0 if
\* there is none
FieldPartEnd(s, p) ==
  LET w == RunEnd(s, RunEnd(s, p, SpaceChars) + 1, WordChars)
      e == RunEnd(s, w + 1, SpaceChars) + 1
  IN  IF w > RunEnd(s, p, SpaceChars) /\ e <= Len(s) /\ s[e] = "=" THEN e ELSE 0

\* reFieldPart.FindStringIndex(temp) != nil
HasFieldPart(temp) == \E p \in 1..Len(temp) : FieldPartEnd(temp, p) # 0

\* the loop of _parseUpdateClause, from the trimmed temp on: a field name, then
\* its value
RECURSIVE ParseUpdateClause(_, _, _, _)
ParseUpdateClause(temp, fields, values, numInput) ==
  IF temp = <<>> THEN Parsed(Nil, fields, values, numInput)
  ELSE IF FieldPartEnd(temp, 1) = 0
       THEN IF HasFieldPart(temp) THEN Parsed(ParseError("(field) "), fields, values, numInput)
            ELSE Parsed(Panicked, fields, values, numInput)
  ELSE CHOOSE parsed \in
         { IF step.err # Nil THEN Parsed(step.err, fs, values, numInput)
           ELSE CHOOSE rest \in
                  { ParseUpdateClause(trimmed, fs, vs, n) :
                      trimmed \in {TrimSpace(Drop(value, step.loc))},
                      vs \in {Append(values, step.value)},
                      n \in {numInput + (IF step.value.isPh THEN 1 ELSE 0)} } : TRUE :
             <<fs, value, step>> \in
               { <<Append(fields, TrimFunc(SubSeq(temp, 1, loc), SpaceChars \cup {"="})),
                   v, LexValue(v)>> :
                   loc \in {FieldPartEnd(temp, 1)},
                   v \in {TrimSpace(Drop(temp, FieldPartEnd(temp, 1)))} } } : TRUE

ParsedId(e, isPh, index) == [err |-> e, idIsPh |-> isPh, idIndex |-> index]

\* _parseId on an id that is not the single character "
ParseId(idStr) ==
  LET hasPrefix == idStr # <<>> /\ idStr[1] = Quote
      hasSuffix == idStr # <<>> /\ idStr[Len(idStr)] = Quote
  IN  IF hasPrefix # hasSuffix THEN ParsedId(IdError("invalid id literate"), FALSE, 0)
      ELSE IF hasPrefix THEN ParsedId(Nil, FALSE, 0)
      ELSE IF \E p \in 1..Len(idStr) : MatchesAt(idStr, p)
           THEN IF MatchesAt(idStr, 1) /\ MatchAt(idStr, 1).end = Len(idStr)
                THEN IF \A p \in 2..Len(idStr) : idStr[p] \in Digits
                     THEN IF Atoi(Drop(idStr, 1)) < 1
                          THEN ParsedId(IdError("invalid id placeholder literate"), FALSE, 0)
                          ELSE ParsedId(Nil, TRUE, Atoi(Drop(idStr, 1)))
                     ELSE ParsedId(IdError("invalid id placeholder literate"), FALSE, 0)
                ELSE ParsedId(IdError("invalid id literate"), FALSE, 0)
      ELSE ParsedId(Nil, FALSE, 0)

\* StmtUpdate.parse: numInput is 1, one more for a placeholder id, one more for
\* each placeholder of the SET clause
ParseUpdate(idStr, updateStr) ==
  LET id == ParseId(idStr)
  IN  IF id.err # Nil THEN [clause |-> Parsed(id.err, <<>>, <<>>, 1), id |-> id]
      ELSE [clause |-> ParseUpdateClause(TrimSpace(updateStr), <<>>, <<>>,
                                         IF id.idIsPh THEN 2 ELSE 1),
            id |-> id]

(* ----------------------- the texts that are parsed --------------------- *)

\* values as they are written: the number 123 bare and quoted, the string 123,
\* null, true, a placeholder
GoodLexemes ==
  { <<"1", "2", "3">>,
    <<Quote, "1", "2", "3", Quote>>,
    <<Quote, Backslash, Quote, "1", "2", "3", Backslash, Quote, Quote>>,
    WordNull,
    WordTrue,
    <<":", "1">> }

\* what is no value: a word, a quote that is not closed, a number that is no
\* JSON number, a boolean in upper case, a quoted text that is no Go literal
JunkLexemes ==
  { <<"z">>,
    <<Quote, "z">>,
    <<"+", "1">>,
    <<"T", "R", "U", "E">>,
    <<Quote, Backslash, "z", Quote>> }

\* what separates a value from the next
Separators == { <<",">>, <<" ", ",", " ">> }

Lexeme(text, sep) == [text |-> text, sep |-> sep]

\* the value lists of n values: each but the last is followed by a separator
LexemeLists(n) ==
  {l \in [1..n -> {Lexeme(t, sep) : t \in GoodLexemes \cup JunkLexemes,
                                    sep \in Separators \cup {<<>>}}] :
     \A i \in 1..(n - 1) : l[i].sep # <<>>}

\* the field named before the i-th value of a SET clause
FieldName(i) == IF i % 2 = 1 THEN <<"a">> ELSE <<"b">>

\* the value list of an INSERT from its i-th value on
RECURSIVE ValuesText(_, _)
ValuesText(l, i) ==
  IF i > Len(l) THEN <<>> ELSE l[i].text \o l[i].sep \o ValuesText(l, i + 1)

\* the SET clause of an UPDATE from its i-th value on
RECURSIVE SetText(_, _)
SetText(l, i) ==
  IF i > Len(l) THEN <<>>
  ELSE FieldName(i) \o <<"=">> \o l[i].text \o l[i].sep \o SetText(l, i + 1)

\* the field list of the INSERT
FieldsStr == <<"a", ",", " ", "b">>

\* the ids of the UPDATE: a placeholder, a literal, a placeholder of index 0
IdStrs == { <<":", "1">>, <<"1">>, <<":", "0">> }

InitLex ==
  /\ lexemes \in UNION {LexemeLists(n) : n \in 0..MaxValues}
  /\ valuesStr \in {ValuesText(lexemes, 1), SetText(lexemes, 1)}
  /\ parseErr = NotParsed
  /\ stmt = Unparsed
  /\ last = NoOutcome
  /\ nexec = 0
  /\ deleted = {}
  /\ rows = NoRows
  /\ origQuery = <<>>
  /\ selectQuery = <<>>

InsertParse ==
  /\ stmt = Unparsed
  /\ \E p \in {ParseInsert(FieldsStr, valuesStr)} :
       /\ stmt' = Statement("insert", p.fields, p.values, FALSE, 0, p.numInput, NoPlaceholders)
       /\ parseErr' = p.err
  /\ UNCHANGED <<last, nexec, deleted, rows, origQuery, selectQuery, lexemes, valuesStr>>

UpdateParse ==
  /\ stmt = Unparsed
  /\ \E idStr \in IdStrs :
       \E p \in {ParseUpdate(idStr, valuesStr)} :
         /\ stmt' = Statement("update", p.clause.fields, p.clause.values, p.id.idIsPh,
                              p.id.idIndex, p.clause.numInput, NoPlaceholders)
         /\ parseErr' = p.clause.err
  /\ UNCHANGED <<last, nexec, deleted, rows, origQuery, selectQuery, lexemes, valuesStr>>

NextLex == InsertParse \/ UpdateParse

SpecLex == InitLex /\ [][NextLex]_vars

(* ----------------------- placeholders of a statement ------------------ *)

\* an index that names no bound argument before the partition key
OutOfRange(i, a) == i < 1 \/ i > Len(a) - 1

SetIndices(s) == {s.values[i].index : i \in {j \in DOMAIN s.values : s.values[j].isPh}}
IdIndices(s) == IF s.idIsPh THEN {s.idIndex} ELSE {}
SomeOutOfRange(s, a) == \E i \in SetIndices(s) \cup IdIndices(s) : OutOfRange(i, a)

\* the calls of one kind among the calls of an execution
CallsOf(op) == {i \in DOMAIN last.calls : last.calls[i].op = op}

\* the value a parsed token stands for under the arguments a
Resolved(tok, a) == IF tok.isPh THEN a[tok.index] ELSE tok.val

\* the last position of field f in the field list, 0 if it is not named
LastPos(s, f) ==
  IF \E i \in DOMAIN s.fields : s.fields[i] = f
  THEN CHOOSE i \in DOMAIN s.fields :
         s.fields[i] = f /\ \A j \in DOMAIN s.fields : s.fields[j] = f => j <= i
  ELSE 0

(* ------------------------------- C1 ----------------------------------- *)

\* C1 (as claimed): whenever StmtUpdate.Exec returns for a statement with a
\* placeholder, in the id or in a SET value, whose index is <= 0 or >= the number
\* of bound arguments, it returns an index error and has issued neither
\* GetDocument nor ReplaceDocument.
C1_UpdateBadIndexNoCall ==
  (last.kind = "update" /\ ~last.panicked /\ SomeOutOfRange(stmt, last.args))
    => (last.err.kind = "invalid value index" /\ last.calls = <<>>)

(* ------------------------------- C2 ----------------------------------- *)

ErrorFreeQuery ==
  /\ last.kind = "select"
  /\ last.calls # <<>>
  /\ \A i \in DOMAIN last.calls : last.calls[i].resp.err = Nil

\* the documents on the page that answered call i
PageLen(i) == Len(last.calls[i].resp.docs)

\* the pages before the last all hold n documents
UniformPages(n) == \A i \in 1..(Len(last.calls) - 1) : PageLen(i) = n

\* one call more than pages with a continuation token, the first call without a
\* token and each later one with the token of the page before
TokensFollowed ==
  /\ Len(last.calls) = 1 + Cardinality({i \in DOMAIN last.calls : last.calls[i].resp.token # 0})
  /\ last.calls[Len(last.calls)].resp.token = 0
  /\ last.calls[1].token = 0
  /\ \A i \in 2..Len(last.calls) : last.calls[i].token = last.calls[i - 1].resp.token

RECURSIVE PagesUpTo(_)
PagesUpTo(i) == IF i = 0 THEN <<>> ELSE PagesUpTo(i - 1) \o last.calls[i].resp.docs

\* C3 (as claimed): k error-free pages of N documents with a continuation token,
\* then an error-free page without one: Query issues k+1 calls, each after the
\* first with the token of the page before, and returns exactly k*N documents.
C3_ReturnsKTimesN ==
  ErrorFreeQuery =>
    /\ TokensFollowed
    /\ \A n \in 0..MaxDocs :
         UniformPages(n) => Len(rows.documents) = (Len(last.calls) - 1) * n

\* C3 (amended): ... Query issues k+1 calls, each after the first with the token
\* of the page before, and the ResultSelect it returns holds the documents of
\* all k+1 pages in page order: k*N + M of them, M the number on the last page.
C3_ReturnsAllPages ==
  ErrorFreeQuery =>
    /\ TokensFollowed
    /\ rows.open /\ last.err = Nil
    /\ rows.documents = PagesUpTo(Len(last.calls))
    /\ \A n \in 0..MaxDocs :
         UniformPages(n) =>
           Len(rows.documents) = (Len(last.calls) - 1) * n + PageLen(Len(last.calls))

C3_Witness ==
  /\ ErrorFreeQuery
  /\ Len(last.calls) = MaxPages + 1
  /\ UniformPages(2)
  /\ PageLen(Len(last.calls)) = 1
  /\ Len(rows.documents) = 2 * MaxPages + 1

(* ------------------------------- C4 ----------------------------------- *)

\* C4 (as claimed): the Next calls on the ResultSelect of a successful Query have
\* returned the accumulated documents in order, each once; Next returns io.EOF
\* only once the read position is the number of accumulated documents, and no
\* more rows are exposed than documents were fetched.
C4_CursorReadsAllDocuments ==
  rows.open =>
    /\ rows.emitted = SubSeq(rows.documents, 1, rows.cursorCount)
    /\ rows.cursorCount <= Len(rows.documents)
    /\ rows.lastNext = "EOF" => rows.cursorCount = Len(rows.documents)

(* ------------------------------- C5 ----------------------------------- *)

\* a DELETE that reached the REST client and was answered by the collection:
\* 204, or 404 for the document
DeleteAnswered(o) ==
  /\ o.kind = "delete"
  /\ Len(o.calls) = 1
  /\ \/ o.calls[1].resp.StatusCode = 204
     \/ o.calls[1].resp.StatusCode = 404 /\ o.calls[1].resp.err.resource = "Document"

\* C5, each execution: a 404 that marks the Document resource is returned as a nil
\* error, any other 404 as ErrNotFound, and a 204 as a nil error.
C5_DeleteStatus ==
  (last.kind = "delete" /\ Len(last.calls) = 1) =>
    LET resp == last.calls[1].resp
    IN  /\ DeleteAnswered(last) => last.err = Nil
        /\ (resp.StatusCode = 404 /\ resp.err.resource # "Document") => last.err = ErrNotFound

\* C5, twice: when a DELETE answered by the collection is followed by the same
\* DELETE (same id, same partition key), again answered by the collection, both
\* return a nil error; the second is a 404 for the document if the first was a 204.
C5_DeleteTwice ==
  (/\ DeleteAnswered(last) /\ DeleteAnswered(last') /\ nexec' = nexec + 1
   /\ last'.calls[1].id = last.calls[1].id
   /\ last'.calls[1].pk = last.calls[1].pk)
    => /\ last.err = Nil /\ last'.err = Nil
       /\ last'.calls[1].resp.StatusCode = 404

\* C5: StmtDelete.Exec is idempotent.
C5_DeleteIdempotent == []C5_DeleteStatus /\ [][C5_DeleteTwice]_vars

C5_Witness ==
  /\ nexec = 2
  /\ DeleteAnswered(last)
  /\ last.calls[1].resp.StatusCode = 404
  /\ <<last.calls[1].id, last.calls[1].pk>> \in deleted
  /\ last.err = Nil

(* ------------------------------- C6 ----------------------------------- *)

\* C6: when GetDocument fails, StmtUpdate.Exec issues no ReplaceDocument; a 404
\* for the document gives (ResultUpdate{Successful: false}, nil), any other 404
\* gives (nil, ErrNotFound), any other error is returned as it is.
C6_FetchFailure ==
  (last.kind = "update" /\ last.calls # <<>> /\ last.calls[1].resp.err # Nil) =>
    LET get == last.calls[1].resp
    IN  /\ CallsOf("ReplaceDocument") = {}
        /\ Len(last.calls) = 1
        /\ (get.StatusCode = 404 /\ get.err.resource = "Document")
             => (last.hasResult /\ ~last.Successful /\ last.err = Nil)
        /\ (get.StatusCode = 404 /\ get.err.resource # "Document")
             => (~last.hasResult /\ last.err = ErrNotFound)
        /\ get.StatusCode # 404 => (~last.hasResult /\ last.err = get.err)

C6_Witness ==
  /\ last.kind = "update"
  /\ Len(last.calls) = 1
  /\ last.calls[1].resp.StatusCode = 404
  /\ last.calls[1].resp.err.resource = "Document"
  /\ last.hasResult /\ ~last.Successful /\ last.err = Nil

(* ------------------------------- C7 ----------------------------------- *)

ExpectedField(s, a, fetched, f) ==
  IF LastPos(s, f) # 0 THEN Resolved(s.values[LastPos(s, f)], a)
  ELSE IF f = "_etag" THEN Absent
  ELSE fetched[f]

\* C8: when the fetch succeeds and every placeholder resolves, StmtUpdate.Exec
\* issues one GetDocument and then one ReplaceDocument, with the etag of the
\* fetched document and with the fetched document, system attributes removed and
\* the SET fields laid over it, as payload.
C8_ReplaceAfterFetch ==
  (/\ last.kind = "update" /\ last.calls # <<>> /\ last.calls[1].resp.err = Nil
   /\ ~SomeOutOfRange(stmt, last.args)) =>
    LET fetched == last.calls[1].resp.doc
    IN  /\ Len(last.calls) = 2
        /\ last.calls[1].op = "GetDocument"
        /\ last.calls[2].op = "ReplaceDocument"
        /\ last.calls[2].etag = fetched["_etag"]
        /\ last.calls[2].pk = last.calls[1].pk
        /\ \A f \in DocFields :
             last.calls[2].data[f] = ExpectedField(stmt, last.args, fetched, f)

C8_Witness ==
  /\ last.kind = "update"
  /\ Len(last.calls) = 2
  /\ stmt.fields = <<"a", "a">>
  /\ stmt.values = <<Literal(Lit(1)), Placeholder(1)>>
  /\ last.calls[2].etag = <<"etag", 2>>
  /\ last.calls[2].data["a"] = ArgVal(1)
  /\ last.calls[2].data["b"] = <<"doc", 2>>

(* ------------------------------- C9 ----------------------------------- *)

\* C9 (as claimed): whenever StmtInsert.Exec returns for a statement whose
\* placeholders are all in range, it has issued one CreateDocument whose payload
\* holds, for each field, its literal or the argument of its placeholder, and
\* whose partition key is the last argument of the list.
C9_InsertLastArgIsPartitionKey ==
  (last.kind = "insert" /\ ~last.panicked /\ ~SomeOutOfRange(stmt, last.args)) =>
    /\ Len(last.calls) = 1
    /\ last.calls[1].op = "CreateDocument"
    /\ \A f \in DocFields :
         last.calls[1].data[f] = ExpectedField(stmt, last.args, NoDoc, f)
    /\ last.calls[1].pk = last.args[Len(last.args)]

(* ------------------------------- C10 ---------------------------------- *)

\* the indices of the [$@:]<n> tokens of a query
TokenIndices(query) ==
  LET matches == FindAll(query, 1)
  IN  {Atoi(matches[i].digits) : i \in DOMAIN matches}

\* the indices n of the @_<n> parameters a query names
NamedParameters(query) ==
  {Atoi(SubSeq(query, p + 2, RunEnd(query, p + 2, Digits))) :
     p \in {q \in 1..(Len(query) - 2) :
              query[q] = "@" /\ query[q + 1] = "_" /\ query[q + 2] \in Digits}}

\* C10 (as claimed): the rewritten query holds none of the [$@:]<n> tokens, and
\* names @_<n> for exactly the indices n that the original query referred to.
C10_RewrittenParameters ==
  stmt.kind = "select" =>
    /\ FindAll(selectQuery, 1) = <<>>
    /\ NamedParameters(selectQuery) = TokenIndices(origQuery)

(* ------------------------------- C11 ---------------------------------- *)

\* the positions of a query where a [$@:]<digits> token starts
TokenStarts(query) ==
  {p \in 1..(Len(query) - 1) : query[p] \in PrefixChars /\ query[p + 1] \in Digits}

\* name is "@_" followed by digits that read as the number i
NamesParameter(name, i) ==
  /\ Len(name) >= 3
  /\ name[1] = "@" /\ name[2] = "_"
  /\ \A p \in 3..Len(name) : name[p] \in Digits
  /\ Atoi(SubSeq(name, 3, Len(name))) = i

\* the argument positions for which the query has no placeholder of that index
Unbound(query, a) == {i \in 1..Len(a) : i \notin TokenIndices(query)}

\* C11: after parse, numInput is the number of placeholder tokens in the query,
\* a repeated index counted each time; Query on arguments of which some position
\* i has no placeholder of index i returns an error and issues no QueryDocuments
\* call; otherwise every call it issues carries one parameter per argument, the
\* i-th named @_i with the i-th argument as value.
C11_SelectBinding ==
  stmt.kind = "select" =>
    /\ stmt.numInput = Cardinality(TokenStarts(origQuery))
    /\ last.kind = "select" =>
         /\ Unbound(origQuery, last.args) # {} =>
              (last.err # Nil /\ ~last.hasResult /\ ~rows.open /\ last.calls = <<>>)
         /\ Unbound(origQuery, last.args) = {} =>
              /\ last.calls # <<>>
              /\ \A c \in DOMAIN last.calls :
                   /\ last.calls[c].op = "QueryDocuments"
                   /\ Len(last.calls[c].params) = Len(last.args)
                   /\ \A i \in DOMAIN last.args :
                        /\ NamesParameter(last.calls[c].params[i].name, i)
                        /\ last.calls[c].params[i].value = last.args[i]

C11_Witness ==
  /\ last.kind = "select"
  /\ stmt.numInput = 2
  /\ DOMAIN stmt.placeholders = {1}
  /\ Len(last.args) = 1
  /\ Len(last.calls) = 1
  /\ last.calls[1].params[1] = [name |-> ParamName(1), value |-> ArgVal(1)]

(* ------------------------------- C12 ---------------------------------- *)

\* the token each value, as it is written, stands for
Meaning(text) ==
  CASE text = <<"1", "2", "3">> -> Literal(<<"number", <<123, 0>>>>)
    [] text = <<Quote, "1", "2", "3", Quote>> -> Literal(<<"number", <<123, 0>>>>)
    [] text = <<Quote, Backslash, Quote, "1", "2", "3", Backslash, Quote, Quote>>
         -> Literal(<<"string", <<"1", "2", "3">>>>)
    [] text = WordNull -> Literal(<<"null", 0>>)
    [] text = WordTrue -> Literal(<<"bool", TRUE>>)
    [] text = <<":", "1">> -> Placeholder(1)
    [] OTHER -> Literal(None)

\* the position of the first lexeme that is no value, one past the last if all are
FirstJunk ==
  IF \E i \in DOMAIN lexemes : lexemes[i].text \in JunkLexemes
  THEN CHOOSE i \in DOMAIN lexemes :
         /\ lexemes[i].text \in JunkLexemes
         /\ \A j \in 1..(i - 1) : lexemes[j].text \notin JunkLexemes
  ELSE Len(lexemes) + 1

\* parse has read the values of its own statement: the value list of an INSERT,
\* or the SET clause of an UPDATE whose id was accepted
ValuesParsed ==
  \/ stmt.kind = "insert" /\ valuesStr = ValuesText(lexemes, 1)
  \/ /\ stmt.kind = "update" /\ valuesStr = SetText(lexemes, 1)
     /\ parseErr.kind \notin {"invalid id literate", "invalid id placeholder literate"}

\* C12: the value lexer of INSERT and of UPDATE SET produces, left to right, one
\* token per value written: a double-quoted value is the JSON value of its
\* unquoted content ("123" is the number 123, as the bare 123 is, and "\"123\""
\* is the string 123); parse accepts a list of values, and fails with a parse
\* error at the first position that holds none of the forms.
C12_ValueLexer ==
  ValuesParsed =>
    /\ stmt.values = [i \in 1..(FirstJunk - 1) |-> Meaning(lexemes[i].text)]
    /\ FirstJunk > Len(lexemes) => parseErr = Nil
    /\ FirstJunk <= Len(lexemes) => parseErr.kind = "cannot parse query"

C12_Witness ==
  /\ stmt.kind = "insert"
  /\ parseErr = Nil
  /\ Len(lexemes) = 2
  /\ lexemes[1].text = <<Quote, "1", "2", "3", Quote>>
  /\ lexemes[2].text = <<Quote, Backslash, Quote, "1", "2", "3", Backslash, Quote, Quote>>
  /\ valuesStr = ValuesText(lexemes, 1)
  /\ stmt.values = <<Literal(JsonNumber(123, 0)), Literal(JsonString(<<"1", "2", "3">>))>>

(* ------------------------------- C13 ---------------------------------- *)

\* the answer to the last call of an execution
FinalAnswer == last.calls[Len(last.calls)].resp

\* C13: when StmtInsert.Exec or StmtSelect.Query has called the REST client, the
\* error it returns is ErrForbidden for a final status 403, ErrNotFound for 404,
\* ErrConflict for 409, and for any other final answer the error the REST client
\* reported, nil if it reported none.
C13_StatusMapping ==
  (last.kind \in {"insert", "select"} /\ last.calls # <<>>) =>
    /\ FinalAnswer.StatusCode = 403 => last.err = ErrForbidden
    /\ FinalAnswer.StatusCode = 404 => last.err = ErrNotFound
    /\ FinalAnswer.StatusCode = 409 => last.err = ErrConflict
    /\ FinalAnswer.StatusCode \notin {403, 404, 409} => last.err = FinalAnswer.err

C13_Witness ==
  /\ last.kind = "select"
  /\ Len(last.calls) = 2
  /\ FinalAnswer.StatusCode = 409
  /\ FinalAnswer.err = ApiErr(409, "none")
  /\ last.err = ErrConflict
  /\ ~rows.open

(* ------------------------------- C14 ---------------------------------- *)

\* the query from position p on with only its placeholder tokens changed: each
\* [$@:]<digits> becomes @_<digits>, a run of whitespace after it becomes one
\* space, every other character stays
RECURSIVE OnlyTokensChanged(_, _)
OnlyTokensChanged(query, p) ==
  IF p > Len(query) THEN <<>>
  ELSE IF MatchesAt(query, p)
       THEN LET d == RunEnd(query, p + 1, Digits)
                w == RunEnd(query, d + 1, SpaceChars)
            IN  <<"@", "_">> \o SubSeq(query, p + 1, d)
                  \o (IF w > d THEN <<" ">> ELSE <<>>)
                  \o OnlyTokensChanged(query, w + 1)
  ELSE <<query[p]>> \o OnlyTokensChanged(query, p + 1)

\* the commas of a text
Commas(text) == Cardinality({p \in DOMAIN text : text[p] = ","})

\* C14 (as claimed): the rewritten query is the query body with only its
\* placeholder tokens changed; a comma that follows a placeholder is still there.
C14_OnlyPlaceholdersRewritten ==
  stmt.kind = "select" =>
    /\ selectQuery = OnlyTokensChanged(origQuery, 1)
    /\ Commas(selectQuery) = Commas(origQuery)

(* ------------------------------- C15 ---------------------------------- *)

\* an Exec of INSERT, UPDATE or DELETE that returned a result
ReturnedResult == last.kind \in {"insert", "update", "delete"} /\ last.hasResult

\* C15 (as claimed): whenever the Exec of an INSERT, UPDATE or DELETE returns a
\* result, the result's RowsAffected is 1 exactly when the error returned with it
\* is nil, the downgraded outcomes (document not found, 412) included.
C15_RowsAffectedIffNilError ==
  ReturnedResult => (RowsAffected(last) = 1 <=> last.err = Nil)

====
